---- MODULE Spec2Model ----
(***************************************************************************)
(* Token lease manager (manankarani/token-manager).                        *)
(*                                                                         *)
(* The backing store is Redis: two sets (token_pool, assigned_tokens), a   *)
(* sorted set (keepalive_tokens) and one string key with a TTL per token   *)
(* (lock:<token>).  Every Redis command is atomic, and a TxPipeline is     *)
(* applied as one atomic step at Exec; nothing else is atomic, so every    *)
(* repository method is modelled as one action per Redis round trip.       *)
(* Client requests run on the goroutines in Procs; the cleanup pass runs   *)
(* its two sweeps as two further goroutines.                               *)
(*                                                                         *)
(* In Spec, SpecSeq, SpecList and SpecLive Redis answers every command;    *)
(* SpecFault and SpecWorker add the branches taken when a command fails.   *)
(* A method reads time.Now() in the step that queues and executes its      *)
(* write.  The clock advances in Ticks of TickStep seconds and may advance *)
(* between any two round trips; a lock key is dropped by the Tick that     *)
(* reaches its TTL.                                                        *)
(*                                                                         *)
(* Spec       requests and the cleanup pass interleave freely, RaceTokens  *)
(* SpecSeq    one repository call at a time (the two sweeps of one pass    *)
(*            still interleave), on Tokens and over a longer time span     *)
(* SpecList   one client, the cleanup pass and a listing call              *)
(* SpecSweep  one cleanup pass from any store over two tokens              *)
(* SpecFault  SpecSeq with failing transactions                            *)
(* SpecWorker the cleanup worker: ticker, cancellation, process exit       *)
(* SpecLive   the worker running a pass on every tick, with fairness       *)
(*                                                                         *)
(* ev holds what the step just taken returned to its caller, and NoEv      *)
(* after a step that returned nothing.  generated, open, deleted,          *)
(* assignedAt, unblocked and snap are history variables: no action reads   *)
(* them except SaveTokenSAdd, which takes a fresh id as uuid.New() does.   *)
(* missed counts the ticks the ticker dropped, up to MaxMissed.            *)
(***************************************************************************)
EXTENDS Integers, FiniteSets, Sequences, TLC

\* ------------------------------------------------------------------ constants
TokenLockTime == 60
TokenAutoReleaseTime == 60
TokenDeletionTime == 5 * 60
TokenCleanupInterval == 10
AssignLeaseSeconds == 60

StatusOK == 200
StatusNotFound == 404
StatusInternalServerError == 500

ErrNone == "nil"
ErrNoAvailableTokens == "no available tokens in pool"
ErrTokenNotFound == "token not found in any pool"
ErrTokenNotAssigned == "token not found in assigned tokens"
ErrFailedKeepAlive == "failed to keep token alive"
ErrTokenAlreadyInUse == "token already in use"
\* the error of a TxPipeline Exec that Redis did not apply
ErrExec == "redis: exec failed"
ErrCleanupAssigned == "failed to execute cleanup for assigned tokens"
ErrCleanupPool == "failed to execute cleanup for pool tokens"
ErrFetchAssigned == "failed to fetch assigned tokens"
ErrFetchPool == "failed to fetch pool tokens"
ErrFetchExpiry == "failed to fetch expiry for token"

\* ------------------------------------------------------------------ bounds
\* seconds the clock advances in one Tick
TickStep == 60
\* number of Ticks in the concurrent specification
MaxTicks == 2
\* number of Ticks in the specification of non-overlapping operations
MaxTicksSeq == 7
\* number of Ticks in the specification of the listing call
MaxTicksList == 2
\* number of Ticks in the specification with failing transactions
MaxTicksFault == 5
\* number of Ticks in the specification of the cleanup worker
MaxTicksWorker == 1
\* number of Ticks in the specification with fairness
MaxTicksLive == 6
\* dropped ticks that are counted
MaxMissed == 2

\* the ids requests name; the concurrent specification races on RaceTokens
Tokens == {"a1", "a2"}
RaceTokens == {"a1"}
Procs == {1, 2}
NoToken == "none"

VARIABLES
    now,               \* time.Now().Unix(), relative to the start
    token_pool,        \* Redis set "token_pool"
    assigned_tokens,   \* Redis set "assigned_tokens"
    keepalive_tokens,  \* Redis sorted set "keepalive_tokens": member -> score
    lock,              \* Redis keys "lock:<token>": token -> expiry instant
    pc,                \* per client goroutine: position in its method
    tok,               \* per client goroutine: the token of the call
    inPool,            \* per client goroutine: KeepAlive's first SIsMember
    rnow,              \* cleanupExpiredTokens: now, read once per pass
    apc, atodo, adel, arel,   \* cleanupAssignedTokens: position, tokens left
                              \* to read, queued deletions, queued releases
    ppc, ptodo, pdel, pdelz,  \* cleanupPoolTokens: position, tokens left to
                              \* read, queued SRem, queued ZRem
    lpc, tokens, ltodo, lnow, expiryMap,  \* GetAssignedTokensWithExpiry: position,
                              \* the SMembers reply, tokens left to read, now,
                              \* the map being built
    ev,                \* what the last step returned to its caller
    generated,         \* history: ids SaveToken was called with
    open,              \* history: tokens with an open lease
    deleted,           \* history: tokens deleted by DeleteToken or a sweep
    assignedAt,        \* history: token -> time of its assignment, while
                       \* no client renewed, released or deleted it since
    unblocked,         \* history: tokens a successful UnblockToken released
    snap,              \* history: the store as the cleanup pass in progress
                       \* found it (kept by SpecSweep only)
    wpc,               \* StartCleanupWorker: position ("off" where the
                       \* specification leaves the worker out)
    tickC,             \* ticker.C: the number of ticks waiting (capacity 1)
    cancelled,         \* ctx.Done() is closed
    missed             \* history: ticks the ticker dropped on a full channel

store == <<token_pool, assigned_tokens, keepalive_tokens>>
client == <<pc, tok, inPool>>
lister == <<lpc, tokens, ltodo, lnow, expiryMap>>
sweepA == <<apc, atodo, adel, arel>>
sweepP == <<ppc, ptodo, pdel, pdelz>>
hist == <<generated, open, deleted, assignedAt, unblocked>>
worker == <<wpc, tickC, cancelled, missed>>
vars == <<now, store, lock, client, lister, rnow, sweepA, sweepP, ev, hist, snap, worker>>

\* ------------------------------------------------------------- Redis commands
EmptyIndex == [x \in {} |-> 0]

ZAdd(z, t, score) == [x \in (DOMAIN z) \cup {t} |-> IF x = t THEN score ELSE z[x]]

ZRem(z, S) == [x \in (DOMAIN z) \ S |-> z[x]]

\* ZScore returns redis.Nil for a member the sorted set does not hold
ZScoreNil(z, t) == t \notin DOMAIN z

\* SET key value NX EX ttl: succeeds when the key is absent (expired keys are)
SetNX(l, t, at) == t \notin DOMAIN l \/ l[t] <= at

\* the keys whose TTL has not run out at instant `at`
Unexpired(l, at) == [x \in {y \in DOMAIN l : l[y] > at} |-> l[x]]

\* -------------------------------------------------------------------- events
Ev(op, t, err) ==
    [op |-> op, tok |-> t, err |-> err, released |-> 0, deleted |-> 0, at |-> now,
     expiry |-> EmptyIndex]

EvCleanup(released, del, at) ==
    [op |-> "CleanupExpiredTokens", tok |-> NoToken, err |-> ErrNone,
     released |-> released, deleted |-> del, at |-> at, expiry |-> EmptyIndex]

\* CleanupExpiredTokens returns a nil map with an error: no count is reported
NoCount == -1

EvCleanupErr(err, at) ==
    [op |-> "CleanupExpiredTokens", tok |-> NoToken, err |-> err,
     released |-> NoCount, deleted |-> NoCount, at |-> at, expiry |-> EmptyIndex]

\* what GetAssignedTokensWithExpiry returns: the map, and the clock it read
EvList(m, at) ==
    [op |-> "GetAssignedTokensWithExpiry", tok |-> NoToken, err |-> ErrNone,
     released |-> 0, deleted |-> 0, at |-> at, expiry |-> m]

NoEv ==
    [op |-> "-", tok |-> NoToken, err |-> ErrNone, released |-> 0, deleted |-> 0, at |-> 0,
     expiry |-> EmptyIndex]

\* ------------------------------------------------------------------- helpers
StoreOf(pool, assigned, keepalive) ==
    [pool |-> pool, assigned |-> assigned, keepalive |-> keepalive]

NoSnap == StoreOf({}, {}, EmptyIndex)

DropKey(f, t) == [x \in (DOMAIN f) \ {t} |-> f[x]]

Idle == (\A p \in Procs : pc[p] = "idle") /\ apc = "idle" /\ ppc = "idle"

Init ==
    /\ now = 0
    /\ token_pool = {}
    /\ assigned_tokens = {}
    /\ keepalive_tokens = EmptyIndex
    /\ lock = EmptyIndex
    /\ pc = [p \in Procs |-> "idle"]
    /\ tok = [p \in Procs |-> NoToken]
    /\ inPool = [p \in Procs |-> FALSE]
    /\ lpc = "idle" /\ tokens = {} /\ ltodo = {} /\ lnow = 0 /\ expiryMap = EmptyIndex
    /\ rnow = 0
    /\ apc = "idle" /\ atodo = {} /\ adel = {} /\ arel = {}
    /\ ppc = "idle" /\ ptodo = {} /\ pdel = {} /\ pdelz = {}
    /\ ev = NoEv
    /\ generated = {}
    /\ open = {}
    /\ deleted = {}
    /\ assignedAt = EmptyIndex
    /\ unblocked = {}
    /\ snap = NoSnap
    /\ wpc = "off" /\ tickC = 0 /\ cancelled = FALSE /\ missed = 0

\* ----------------------------------------------------------------- the clock
\* the ticker runs from the start of the worker until the worker returns
TickerRunning == wpc \in {"select", "call", "cleanup"}

\* a Tick spans at least one period of the ticker (TickStep >= TokenCleanupInterval):
\* a tick is waiting in ticker.C afterwards, and one more is dropped if one
\* was waiting already
Tick(max) ==
    /\ now < max * TickStep
    /\ now' = now + TickStep
    /\ lock' = Unexpired(lock, now')
    /\ ev' = NoEv
    /\ tickC' = IF TickerRunning THEN 1 ELSE tickC
    /\ missed' = IF TickerRunning /\ tickC = 1 /\ missed < MaxMissed THEN missed + 1 ELSE missed
    /\ UNCHANGED <<store, client, lister, snap, rnow, sweepA, sweepP, hist, wpc, cancelled>>

\* ---------------------------------------------------------- client goroutines
Goto(p, label, t) ==
    /\ pc' = [pc EXCEPT ![p] = label]
    /\ tok' = [tok EXCEPT ![p] = t]

Return(p, op, t, err) ==
    /\ pc' = [pc EXCEPT ![p] = "idle"]
    /\ tok' = [tok EXCEPT ![p] = NoToken]
    /\ ev' = Ev(op, t, err)

\* ---- SaveToken (GenerateToken passes a fresh uuid)
\* mutant: the score of a new token is pushed a lease window ahead
SaveScoreLeased(at) == at + TokenAutoReleaseTime

SaveScore(at) == at

SaveTokenSAdd(p, x) ==
    /\ pc[p] = "idle"
    /\ x \notin generated
    /\ token_pool' = token_pool \cup {x}
    /\ generated' = generated \cup {x}
    /\ Goto(p, "save_zadd", x)
    /\ ev' = NoEv
    /\ UNCHANGED <<now, worker, lister, snap, assigned_tokens, keepalive_tokens, lock, inPool, rnow,
                   sweepA, sweepP, open, deleted, assignedAt, unblocked>>

SaveTokenZAdd(p) ==
    /\ pc[p] = "save_zadd"
    /\ keepalive_tokens' = ZAdd(keepalive_tokens, tok[p], SaveScore(now))
    /\ Return(p, "SaveToken", tok[p], ErrNone)
    /\ UNCHANGED <<now, worker, lister, snap, token_pool, assigned_tokens, lock, inPool, rnow,
                   sweepA, sweepP, hist>>

\* ---- AssignToken
\* mutant: the lease window is left out of the score
AssignScoreNoLease(at) == at

AssignScore(at) == at + AssignLeaseSeconds

LockExpiry(at) == at + TokenLockTime

\* mutant: redis.Nil is passed on as any other Redis error
SPopErrUnmapped(pool) == IF pool = {} THEN "redis: nil" ELSE ErrNone

\* SPop on an empty set returns redis.Nil, which AssignToken turns into
\* ErrNoAvailableTokens
SPopErr(pool) == IF pool = {} THEN ErrNoAvailableTokens ELSE ErrNone

AssignSPop(p) ==
    /\ pc[p] = "idle"
    /\ IF SPopErr(token_pool) # ErrNone
         THEN /\ Return(p, "AssignToken", NoToken, SPopErr(token_pool))
              /\ UNCHANGED token_pool
         ELSE \E t \in token_pool :
                /\ token_pool' = token_pool \ {t}
                /\ Goto(p, "assign_setnx", t)
                /\ ev' = NoEv
    /\ UNCHANGED <<now, worker, lister, snap, assigned_tokens, keepalive_tokens, lock, inPool, rnow,
                   sweepA, sweepP, hist>>

AssignSetNX(p) ==
    /\ pc[p] = "assign_setnx"
    /\ IF SetNX(lock, tok[p], now)
         THEN /\ lock' = ZAdd(lock, tok[p], LockExpiry(now))
              /\ Goto(p, "assign_tx", tok[p])
              /\ ev' = NoEv
         ELSE /\ Return(p, "AssignToken", NoToken, ErrTokenAlreadyInUse)
              /\ UNCHANGED lock
    /\ UNCHANGED <<now, worker, lister, snap, store, inPool, rnow, sweepA, sweepP, hist>>

AssignExec(p) ==
    /\ pc[p] = "assign_tx"
    /\ assigned_tokens' = assigned_tokens \cup {tok[p]}
    /\ keepalive_tokens' = ZAdd(keepalive_tokens, tok[p], AssignScore(now))
    /\ Return(p, "AssignToken", tok[p], ErrNone)
    /\ open' = open \cup {tok[p]}
    /\ assignedAt' = ZAdd(assignedAt, tok[p], now)
    /\ UNCHANGED <<now, worker, lister, snap, token_pool, lock, inPool, rnow, sweepA, sweepP,
                   generated, deleted, unblocked>>

\* mutant: the lock is left in place when the transaction fails
LockLeftAfterRollback(l, t) == l

\* r.RedisClient.Del(ctx, lockKey)
LockAfterRollback(l, t) == DropKey(l, t)

\* pipe.Exec returns an error: Redis applied neither command
AssignExecFail(p) ==
    /\ pc[p] = "assign_tx"
    /\ Goto(p, "assign_del", tok[p])
    /\ ev' = NoEv
    /\ UNCHANGED <<now, worker, lister, snap, store, lock, inPool, rnow, sweepA, sweepP, hist>>

\* the rollback of the lock, then the error is returned
AssignDel(p) ==
    /\ pc[p] = "assign_del"
    /\ lock' = LockAfterRollback(lock, tok[p])
    /\ Return(p, "AssignToken", NoToken, ErrExec)
    /\ UNCHANGED <<now, worker, lister, snap, store, inPool, rnow, sweepA, sweepP, hist>>

\* ---- KeepAlive
\* mutant: the lease window is left out of the renewed score
KeepAliveScoreNoWindow(at) == at

KeepAliveScore(at) == at + TokenAutoReleaseTime

KeepAliveFound(inP, inA) == inP \/ inA

KeepAliveInPool(p, t) ==
    /\ pc[p] = "idle"
    /\ inPool' = [inPool EXCEPT ![p] = t \in token_pool]
    /\ Goto(p, "ka_assigned", t)
    /\ ev' = NoEv
    /\ UNCHANGED <<now, worker, lister, snap, store, lock, rnow, sweepA, sweepP, hist>>

KeepAliveInAssigned(p) ==
    /\ pc[p] = "ka_assigned"
    /\ IF KeepAliveFound(inPool[p], tok[p] \in assigned_tokens)
         THEN /\ Goto(p, "ka_zadd", tok[p])
              /\ ev' = NoEv
         ELSE Return(p, "KeepAlive", tok[p], ErrTokenNotFound)
    /\ inPool' = [inPool EXCEPT ![p] = FALSE]
    /\ UNCHANGED <<now, worker, lister, snap, store, lock, rnow, sweepA, sweepP, hist>>

KeepAliveZAdd(p) ==
    /\ pc[p] = "ka_zadd"
    /\ keepalive_tokens' = ZAdd(keepalive_tokens, tok[p], KeepAliveScore(now))
    /\ Return(p, "KeepAlive", tok[p], ErrNone)
    /\ assignedAt' = DropKey(assignedAt, tok[p])
    /\ UNCHANGED <<now, worker, lister, snap, token_pool, assigned_tokens, lock, inPool, rnow,
                   sweepA, sweepP, generated, open, deleted, unblocked>>

\* ---- DeleteToken
\* the three IntCmd results of the transaction: SRem, SRem, ZRem
DeleteResults(t) ==
    << IF t \in token_pool THEN 1 ELSE 0,
       IF t \in assigned_tokens THEN 1 ELSE 0,
       IF t \in DOMAIN keepalive_tokens THEN 1 ELSE 0 >>

\* mutant: the results of the removals are not looked at
DeleteAffectedAlways(res) == TRUE

DeleteAffected(res) == \E i \in DOMAIN res : res[i] > 0

DeleteToken(p, t) ==
    /\ pc[p] = "idle"
    /\ token_pool' = token_pool \ {t}
    /\ assigned_tokens' = assigned_tokens \ {t}
    /\ keepalive_tokens' = ZRem(keepalive_tokens, {t})
    /\ IF DeleteAffected(DeleteResults(t))
         THEN /\ Return(p, "DeleteToken", t, ErrNone)
              /\ deleted' = deleted \cup {t}
         ELSE /\ Return(p, "DeleteToken", t, ErrTokenNotFound)
              /\ UNCHANGED deleted
    /\ open' = open \ {t}
    /\ assignedAt' = DropKey(assignedAt, t)
    /\ UNCHANGED <<now, worker, lister, snap, lock, inPool, rnow, sweepA, sweepP, generated, unblocked>>

\* ---- UnblockToken
\* mutant: the score is set a lease window back
UnblockScoreStale(at) == at - TokenAutoReleaseTime

\* mutant: the score of an unblocked token is the time of the call
UnblockScoreNoWindow(at) == at

UnblockScore(at) == at + TokenAutoReleaseTime

\* mutant: a token outside assigned_tokens is reported as unknown
UnblockCheckErrNotFound(isMember) == IF isMember THEN ErrNone ELSE ErrTokenNotFound

\* the result of the SIsMember check that opens UnblockToken
UnblockCheckErr(isMember) == IF isMember THEN ErrNone ELSE ErrTokenNotAssigned

UnblockIsMember(p, t) ==
    /\ pc[p] = "idle"
    /\ LET err == UnblockCheckErr(t \in assigned_tokens) IN
         IF err = ErrNone
           THEN /\ Goto(p, "unblock_tx", t)
                /\ ev' = NoEv
           ELSE Return(p, "UnblockToken", t, err)
    /\ UNCHANGED <<now, worker, lister, snap, store, lock, inPool, rnow, sweepA, sweepP, hist>>

UnblockExec(p) ==
    /\ pc[p] = "unblock_tx"
    /\ assigned_tokens' = assigned_tokens \ {tok[p]}
    /\ token_pool' = token_pool \cup {tok[p]}
    /\ keepalive_tokens' = ZAdd(keepalive_tokens, tok[p], UnblockScore(now))
    /\ Return(p, "UnblockToken", tok[p], ErrNone)
    /\ open' = open \ {tok[p]}
    /\ assignedAt' = DropKey(assignedAt, tok[p])
    /\ unblocked' = unblocked \cup {tok[p]}
    /\ UNCHANGED <<now, worker, lister, snap, lock, inPool, rnow, sweepA, sweepP, generated, deleted>>

\* ---- GetAssignedTokensWithExpiry
NoExpiry == -1

Max(a, b) == IF a >= b THEN a ELSE b

\* mutant: the remaining time is not floored
RemainingUnfloored(expiry, at) == expiry - at

Remaining(expiry, at) == Max(expiry - at, -1)

\* SMembers of assigned_tokens, then the clock is read once for the whole call
ListSMembers ==
    /\ lpc = "idle"
    /\ tokens' = assigned_tokens
    /\ ltodo' = assigned_tokens
    /\ lnow' = now
    /\ expiryMap' = EmptyIndex
    /\ lpc' = "zscore"
    /\ ev' = NoEv
    /\ UNCHANGED <<now, worker, snap, store, lock, client, rnow, sweepA, sweepP, hist>>

\* one iteration of the loop: ZScore of one token of the reply
ListZScore(t) ==
    /\ lpc = "zscore"
    /\ t \in ltodo
    /\ expiryMap' = ZAdd(expiryMap, t,
                         IF ZScoreNil(keepalive_tokens, t)
                           THEN NoExpiry
                           ELSE Remaining(keepalive_tokens[t], lnow))
    /\ ltodo' = ltodo \ {t}
    /\ ev' = NoEv
    /\ UNCHANGED <<now, worker, snap, store, lock, client, lpc, tokens, lnow, rnow, sweepA, sweepP, hist>>

ListReturn ==
    /\ lpc = "zscore"
    /\ ltodo = {}
    /\ ev' = EvList(expiryMap, lnow)
    /\ lpc' = "idle"
    /\ tokens' = {}
    /\ lnow' = 0
    /\ expiryMap' = EmptyIndex
    /\ UNCHANGED <<now, worker, snap, store, lock, client, ltodo, rnow, sweepA, sweepP, hist>>

List ==
    \/ ListSMembers
    \/ \E t \in Tokens : ListZScore(t)
    \/ ListReturn

\* ---- TokenHandler.AssignToken: the status code of the response
AssignTokenStatus(err) ==
    IF err = ErrNone THEN StatusOK
    ELSE IF err = ErrNoAvailableTokens THEN StatusNotFound
    ELSE StatusInternalServerError

\* ---- TokenHandler.KeepAlive, DeleteToken, UnblockToken: the status code of
\* the response to a request whose uri or body was bound
KeepAliveStatus(err) == IF err = ErrNone THEN StatusOK ELSE StatusInternalServerError

DeleteTokenStatus(err) == IF err = ErrNone THEN StatusOK ELSE StatusInternalServerError

UnblockTokenStatus(err) == IF err = ErrNone THEN StatusOK ELSE StatusInternalServerError

\* ------------------------------------------------------ cleanupExpiredTokens
ReleaseBefore(at) == at - TokenAutoReleaseTime

DeleteBefore(at) == at - TokenDeletionTime

\* the pass reads the clock once and starts both sweeps
StartCleanup ==
    /\ apc = "idle" /\ ppc = "idle"
    /\ rnow' = now
    /\ apc' = "smembers"
    /\ ppc' = "smembers"
    /\ ev' = NoEv
    /\ wpc' = IF wpc = "call" THEN "cleanup" ELSE wpc
    /\ UNCHANGED <<now, lister, store, lock, client, atodo, adel, arel, ptodo, pdel, pdelz, hist,
                   tickC, cancelled, missed>>

\* ---- cleanupAssignedTokens
\* what the loop body queues for one assigned token
\* mutant: a score equal to a threshold is not past it
AssignedDecisionStrict(z, t, releaseBefore, deleteBefore) ==
    IF ZScoreNil(z, t) THEN "delete"
    ELSE IF z[t] < deleteBefore THEN "delete"
    ELSE IF z[t] < releaseBefore THEN "release"
    ELSE "keep"

AssignedDecision(z, t, releaseBefore, deleteBefore) ==
    IF ZScoreNil(z, t) THEN "delete"
    ELSE IF z[t] <= deleteBefore THEN "delete"
    ELSE IF z[t] <= releaseBefore THEN "release"
    ELSE "keep"

ASMembers ==
    /\ apc = "smembers"
    /\ atodo' = assigned_tokens
    /\ apc' = IF assigned_tokens = {} THEN "done" ELSE "scan"
    /\ ev' = NoEv
    /\ UNCHANGED <<now, worker, lister, snap, store, lock, client, rnow, adel, arel, sweepP, hist>>

AZScore(t) ==
    /\ apc = "scan"
    /\ t \in atodo
    /\ LET d == AssignedDecision(keepalive_tokens, t, ReleaseBefore(rnow), DeleteBefore(rnow))
       IN /\ adel' = IF d = "delete" THEN adel \cup {t} ELSE adel
          /\ arel' = IF d = "release" THEN arel \cup {t} ELSE arel
    /\ atodo' = atodo \ {t}
    /\ apc' = IF atodo' = {} THEN "exec" ELSE "scan"
    /\ ev' = NoEv
    /\ UNCHANGED <<now, worker, lister, snap, store, lock, client, rnow, sweepP, hist>>

\* the scores after the transaction of the assigned sweep: a released token
\* keeps its score, only deleted tokens lose theirs
\* mutant: a release gives the token a new deadline
ScoresAfterRenewingRelease(z, del, rel, at) ==
    [t \in DOMAIN ZRem(z, del) |-> IF t \in rel THEN at + TokenAutoReleaseTime ELSE z[t]]

ScoresAfterAssignedSweep(z, del, rel, at) == ZRem(z, del)

AExec ==
    /\ apc = "exec"
    /\ assigned_tokens' = assigned_tokens \ (adel \cup arel)
    /\ keepalive_tokens' = ScoresAfterAssignedSweep(keepalive_tokens, adel, arel, rnow)
    /\ token_pool' = token_pool \cup arel
    /\ apc' = "done"
    /\ ev' = NoEv
    /\ open' = open \ (adel \cup arel)
    /\ deleted' = deleted \cup {t \in adel \cap assigned_tokens : t \notin token_pool'}
    /\ UNCHANGED <<now, worker, lister, snap, lock, client, rnow, atodo, adel, arel, sweepP,
                   generated, assignedAt, unblocked>>

\* ---- cleanupPoolTokens
\* what the loop body queues for one pool token
\* mutant: a pool token without a score is left alone
PoolDecisionKeepsUnscored(z, t, deleteBefore) ==
    IF ZScoreNil(z, t) THEN "keep"
    ELSE IF z[t] <= deleteBefore THEN "srem+zrem"
    ELSE "keep"

\* mutant: the pool sweep deletes from the release threshold on
PoolDecisionEager(z, t, deleteBefore) ==
    IF ZScoreNil(z, t) THEN "srem"
    ELSE IF z[t] <= deleteBefore + (TokenDeletionTime - TokenAutoReleaseTime) THEN "srem+zrem"
    ELSE "keep"

PoolDecision(z, t, deleteBefore) ==
    IF ZScoreNil(z, t) THEN "srem"
    ELSE IF z[t] <= deleteBefore THEN "srem+zrem"
    ELSE "keep"

PSMembers ==
    /\ ppc = "smembers"
    /\ ptodo' = token_pool
    /\ ppc' = IF token_pool = {} THEN "done" ELSE "scan"
    /\ ev' = NoEv
    /\ UNCHANGED <<now, worker, lister, snap, store, lock, client, rnow, pdel, pdelz, sweepA, hist>>

PZScore(t) ==
    /\ ppc = "scan"
    /\ t \in ptodo
    /\ LET d == PoolDecision(keepalive_tokens, t, DeleteBefore(rnow))
       IN /\ pdel' = IF d \in {"srem", "srem+zrem"} THEN pdel \cup {t} ELSE pdel
          /\ pdelz' = IF d = "srem+zrem" THEN pdelz \cup {t} ELSE pdelz
    /\ ptodo' = ptodo \ {t}
    /\ ppc' = IF ptodo' = {} THEN "exec" ELSE "scan"
    /\ ev' = NoEv
    /\ UNCHANGED <<now, worker, lister, snap, store, lock, client, rnow, sweepA, hist>>

\* SMembers returns an error: the sweep returns it
ASMembersFail ==
    /\ apc = "smembers"
    /\ apc' = "failed_fetch"
    /\ ev' = NoEv
    /\ UNCHANGED <<now, worker, lister, snap, store, lock, client, rnow, atodo, adel, arel, sweepP, hist>>

\* ZScore returns an error other than redis.Nil: the token is skipped
AZScoreFail(t) ==
    /\ apc = "scan"
    /\ t \in atodo
    /\ atodo' = atodo \ {t}
    /\ apc' = IF atodo' = {} THEN "exec" ELSE "scan"
    /\ ev' = NoEv
    /\ UNCHANGED <<now, worker, lister, snap, store, lock, client, rnow, adel, arel, sweepP, hist>>

PSMembersFail ==
    /\ ppc = "smembers"
    /\ ppc' = "failed_fetch"
    /\ ev' = NoEv
    /\ UNCHANGED <<now, worker, lister, snap, store, lock, client, rnow, ptodo, pdel, pdelz, sweepA, hist>>

\* ZScore returns an error other than redis.Nil: the sweep returns it, and
\* the queued commands are never executed
PZScoreFail(t) ==
    /\ ppc = "scan"
    /\ t \in ptodo
    /\ ppc' = "failed_zscore"
    /\ ev' = NoEv
    /\ UNCHANGED <<now, worker, lister, snap, store, lock, client, rnow, ptodo, pdel, pdelz, sweepA, hist>>

\* pipe.Exec returns an error: Redis applied none of the queued commands
AExecFail ==
    /\ apc = "exec"
    /\ apc' = "failed"
    /\ ev' = NoEv
    /\ UNCHANGED <<now, worker, lister, snap, store, lock, client, rnow, atodo, adel, arel, sweepP, hist>>

PExecFail ==
    /\ ppc = "exec"
    /\ ppc' = "failed"
    /\ ev' = NoEv
    /\ UNCHANGED <<now, worker, lister, snap, store, lock, client, rnow, ptodo, pdel, pdelz, sweepA, hist>>

PExec ==
    /\ ppc = "exec"
    /\ token_pool' = token_pool \ pdel
    /\ keepalive_tokens' = ZRem(keepalive_tokens, pdelz)
    /\ ppc' = "done"
    /\ ev' = NoEv
    /\ deleted' = deleted \cup {t \in pdel \cap token_pool : t \notin assigned_tokens}
    /\ UNCHANGED <<now, worker, lister, snap, assigned_tokens, lock, client, rnow, ptodo, pdel, pdelz,
                   sweepA, generated, open, assignedAt, unblocked>>

\* ---- wg.Wait(), then the results of both sweeps are summed and returned
\* mutant: an error of the pass ends the worker
WorkerStopsOnError(err) == IF err = ErrNone THEN "select" ELSE "stopped"

\* the worker logs the error of cleanupFunc and goes back to its select
WorkerAfterCleanup(err) == "select"

\* the ProcessingError kept is the one of the result received first
SweepReturned == {"done", "failed", "failed_fetch", "failed_zscore"}

\* the ProcessingError of a sweep that returned at position pos
SweepError(pos, onExec, onFetch) ==
    IF pos = "failed" THEN {onExec}
    ELSE IF pos = "failed_fetch" THEN {onFetch}
    ELSE IF pos = "failed_zscore" THEN {ErrFetchExpiry}
    ELSE {}

ProcessingErrors(a, p) ==
    LET errs == SweepError(a, ErrCleanupAssigned, ErrFetchAssigned)
                  \cup SweepError(p, ErrCleanupPool, ErrFetchPool)
    IN IF errs = {} THEN {ErrNone} ELSE errs

CleanupJoin ==
    /\ apc \in SweepReturned /\ ppc \in SweepReturned
    /\ \E err \in ProcessingErrors(apc, ppc) :
          /\ ev' = IF err = ErrNone
                     THEN EvCleanup(Cardinality(arel), Cardinality(adel) + Cardinality(pdel), rnow)
                     ELSE EvCleanupErr(err, rnow)
          /\ wpc' = IF wpc = "cleanup" THEN WorkerAfterCleanup(err) ELSE wpc
    /\ rnow' = 0
    /\ apc' = "idle" /\ atodo' = {} /\ adel' = {} /\ arel' = {}
    /\ ppc' = "idle" /\ ptodo' = {} /\ pdel' = {} /\ pdelz' = {}
    /\ UNCHANGED <<now, lister, snap, store, lock, client, hist, tickC, cancelled, missed>>

\* ------------------------------------------------------- StartCleanupWorker
\* go workers.StartCleanupWorker(ctx, tokenService.CleanupExpiredTokens, logger)
StartWorker ==
    /\ wpc = "off"
    /\ wpc' = "select"
    /\ ev' = NoEv
    /\ UNCHANGED <<now, store, lock, client, lister, snap, rnow, sweepA, sweepP, hist,
                   tickC, cancelled, missed>>

\* a worker blocked in its select with a tick waiting: the receive is its next
\* step, and it comes before the ticker's next period ends
ReceiveDue == wpc = "select" /\ tickC = 1

\* the ticker fires: the tick waits in ticker.C, or is dropped when one waits
TickerFire ==
    /\ TickerRunning
    /\ ~ReceiveDue
    /\ IF tickC = 0
         THEN tickC' = 1 /\ UNCHANGED missed
         ELSE missed < MaxMissed /\ missed' = missed + 1 /\ UNCHANGED tickC
    /\ ev' = NoEv
    /\ UNCHANGED <<now, store, lock, client, lister, snap, rnow, sweepA, sweepP, hist,
                   wpc, cancelled>>

\* case <-ticker.C: the worker is about to call cleanupFunc(ctx)
WorkerReceive ==
    /\ wpc = "select"
    /\ tickC = 1
    /\ tickC' = 0
    /\ wpc' = "call"
    /\ ev' = NoEv
    /\ UNCHANGED <<now, store, lock, client, lister, snap, rnow, sweepA, sweepP, hist,
                   cancelled, missed>>

\* case <-ctx.Done(): the worker returns, and its deferred ticker.Stop() runs
\* mutant: the case goes round the loop again
WorkerLoopsOnDone == "select"

WorkerOnDone == "stopped"

WorkerDone ==
    /\ wpc = "select"
    /\ cancelled
    /\ wpc' = WorkerOnDone
    /\ ev' = NoEv
    /\ UNCHANGED <<now, store, lock, client, lister, snap, rnow, sweepA, sweepP, hist,
                   tickC, cancelled, missed>>

\* main's signal handler calls cancel()
Cancel ==
    /\ wpc # "off"
    /\ ~cancelled
    /\ cancelled' = TRUE
    /\ ev' = NoEv
    /\ UNCHANGED <<now, store, lock, client, lister, snap, rnow, sweepA, sweepP, hist,
                   wpc, tickC, missed>>

\* after cancel() the handler shuts the server down, ListenAndServe returns
\* and main returns without waiting for the worker: every goroutine ends
\* where it is
ProcessExit ==
    /\ cancelled
    /\ wpc # "exited"
    /\ wpc' = "exited"
    /\ ev' = NoEv
    /\ UNCHANGED <<now, store, lock, client, lister, snap, rnow, sweepA, sweepP, hist,
                   tickC, cancelled, missed>>

\* the error branches of the sweeps: a Redis command given a cancelled ctx, or
\* one that Redis fails, returns an error
SweepFault ==
    \/ ASMembersFail
    \/ \E t \in Tokens : AZScoreFail(t)
    \/ AExecFail
    \/ PSMembersFail
    \/ \E t \in Tokens : PZScoreFail(t)
    \/ PExecFail

\* ------------------------------------------------------------ specifications
\* the first Redis round trip of each repository method
Start(p, ids) ==
    \/ \E x \in ids : SaveTokenSAdd(p, x)
    \/ AssignSPop(p)
    \/ \E t \in ids : KeepAliveInPool(p, t)
    \/ \E t \in ids : DeleteToken(p, t)
    \/ \E t \in ids : UnblockIsMember(p, t)

\* the later round trips
Continue(p) ==
    \/ SaveTokenZAdd(p)
    \/ AssignSetNX(p)
    \/ AssignExec(p)
    \/ KeepAliveInAssigned(p)
    \/ KeepAliveZAdd(p)
    \/ UnblockExec(p)

Sweep ==
    \/ ASMembers
    \/ \E t \in Tokens : AZScore(t)
    \/ AExec
    \/ PSMembers
    \/ \E t \in Tokens : PZScore(t)
    \/ PExec
    \/ CleanupJoin

\* requests and the cleanup pass run concurrently
Next ==
    \/ \E p \in Procs : Start(p, RaceTokens) \/ Continue(p)
    \/ StartCleanup /\ UNCHANGED snap
    \/ Sweep
    \/ Tick(MaxTicks)

Spec == Init /\ [][Next]_vars

\* one repository call at a time: a call starts only when none is in progress
NextSeq ==
    \/ Idle /\ Start(1, Tokens)
    \/ Continue(1)
    \/ Idle /\ StartCleanup /\ UNCHANGED snap
    \/ Sweep
    \/ Tick(MaxTicksSeq)

SpecSeq == Init /\ [][NextSeq]_vars

\* one client goroutine, the cleanup pass and a GetAssignedTokensWithExpiry call
\* run concurrently
NextList ==
    \/ Start(1, RaceTokens) \/ Continue(1)
    \/ List
    \/ StartCleanup /\ UNCHANGED snap
    \/ Sweep
    \/ Tick(MaxTicksList)

SpecList == Init /\ [][NextList]_vars

\* one repository call at a time, and a TxPipeline Exec of AssignToken or of a
\* sweep may fail
Fault ==
    \/ AssignExecFail(1)
    \/ AssignDel(1)
    \/ AExecFail
    \/ PExecFail

NextFault ==
    \/ Idle /\ Start(1, Tokens)
    \/ Continue(1)
    \/ Idle /\ StartCleanup /\ UNCHANGED snap
    \/ Sweep
    \/ Fault
    \/ Tick(MaxTicksFault)

SpecFault == Init /\ [][NextFault]_vars

\* the process with its worker: the passes are the ones the worker calls, one
\* client call at a time, until the process exits
Running == wpc # "exited"

NextWorker ==
    \/ StartWorker
    \/ Running /\ TickerFire
    \/ Running /\ WorkerReceive
    \/ Running /\ wpc = "call" /\ StartCleanup /\ UNCHANGED snap
    \/ Running /\ Sweep
    \/ Running /\ SweepFault
    \/ Running /\ WorkerDone
    \/ Cancel
    \/ ProcessExit
    \/ Running /\ Idle /\ Start(1, RaceTokens)
    \/ Running /\ Continue(1)
    \/ Running /\ ~ReceiveDue /\ Tick(MaxTicksWorker)

SpecWorker == Init /\ [][NextWorker]_vars

\* the worker's goroutine is scheduled and every Redis command of a pass
\* returns, with a result or an error; a select with both cases ready picks
\* one at random, so the ctx.Done() case, ready at every select once ctx is
\* cancelled, is not passed over for ever
PassStep ==
    \/ wpc = "call" /\ StartCleanup /\ UNCHANGED snap
    \/ Sweep

SpecStop ==
    /\ Init /\ [][NextWorker]_vars
    /\ WF_vars(Running /\ PassStep)
    /\ SF_vars(Running /\ WorkerDone)

\* the worker keeps running as time advances: ctx is never cancelled, the
\* worker takes each tick and its pass returns before the clock moves on; one
\* client, whose calls may stop half way and whose AssignToken transaction
\* may fail.  Each Tick of the clock delivers a tick of the ticker; past the
\* last Tick that is counted the ticker goes on firing.
ClockStopped == now = MaxTicksLive * TickStep

WorkerStep ==
    \/ StartWorker
    \/ ClockStopped /\ tickC = 0 /\ TickerFire
    \/ WorkerReceive
    \/ wpc = "call" /\ StartCleanup /\ UNCHANGED snap
    \/ Sweep

ClockStep == wpc = "select" /\ tickC = 0 /\ Tick(MaxTicksLive)

NextLive ==
    \/ WorkerStep
    \/ ClockStep
    \/ Idle /\ Start(1, RaceTokens)
    \/ Continue(1)
    \/ AssignExecFail(1)
    \/ AssignDel(1)

\* the Go scheduler runs the worker goroutine, Redis answers, time passes
SpecLive == Init /\ [][NextLive]_vars /\ WF_vars(WorkerStep) /\ WF_vars(ClockStep)

\* ---- one cleanup pass as a function of the store it starts from
\* cleanupAssignedTokens run alone, from SMembers to Exec, on store s
SweepAssigned(s, at) ==
    LET del == {t \in s.assigned :
                  AssignedDecision(s.keepalive, t, ReleaseBefore(at), DeleteBefore(at)) = "delete"}
        rel == {t \in s.assigned :
                  AssignedDecision(s.keepalive, t, ReleaseBefore(at), DeleteBefore(at)) = "release"}
    IN [store |-> StoreOf(s.pool \cup rel, s.assigned \ (del \cup rel), ZRem(s.keepalive, del)),
        released |-> Cardinality(rel),
        deleted |-> Cardinality(del)]

\* cleanupPoolTokens run alone, from SMembers to Exec, on store s
SweepPool(s, at) ==
    LET del == {t \in s.pool : PoolDecision(s.keepalive, t, DeleteBefore(at)) # "keep"}
        delz == {t \in s.pool : PoolDecision(s.keepalive, t, DeleteBefore(at)) = "srem+zrem"}
    IN [store |-> StoreOf(s.pool \ del, s.assigned, ZRem(s.keepalive, delz)),
        released |-> 0,
        deleted |-> Cardinality(del)]

\* the two sweeps one after the other, and the sums cleanupExpiredTokens returns
AssignedThenPool(s, at) ==
    LET a == SweepAssigned(s, at)
        p == SweepPool(a.store, at)
    IN [store |-> p.store, released |-> a.released + p.released,
        deleted |-> a.deleted + p.deleted]

PoolThenAssigned(s, at) ==
    LET p == SweepPool(s, at)
        a == SweepAssigned(p.store, at)
    IN [store |-> a.store, released |-> a.released + p.released,
        deleted |-> a.deleted + p.deleted]

\* ---- the cleanup pass alone, started from any store
\* the clock of the passes, and scores on both sides of the two thresholds
SweepNow == 6 * TickStep

SweepScores ==
    {DeleteBefore(SweepNow), DeleteBefore(SweepNow) + 1,
     ReleaseBefore(SweepNow), ReleaseBefore(SweepNow) + 1}

\* the partial functions from S to T
PartialMaps(S, T) == UNION {[D -> T] : D \in SUBSET S}

InitSweep ==
    /\ now = SweepNow
    /\ token_pool \in SUBSET Tokens
    /\ assigned_tokens \in SUBSET Tokens
    /\ keepalive_tokens \in PartialMaps(Tokens, SweepScores)
    /\ lock = EmptyIndex
    /\ pc = [p \in Procs |-> "idle"]
    /\ tok = [p \in Procs |-> NoToken]
    /\ inPool = [p \in Procs |-> FALSE]
    /\ lpc = "idle" /\ tokens = {} /\ ltodo = {} /\ lnow = 0 /\ expiryMap = EmptyIndex
    /\ rnow = 0
    /\ apc = "idle" /\ atodo = {} /\ adel = {} /\ arel = {}
    /\ ppc = "idle" /\ ptodo = {} /\ pdel = {} /\ pdelz = {}
    /\ ev = NoEv
    /\ generated = token_pool \cup assigned_tokens \cup DOMAIN keepalive_tokens
    /\ open = assigned_tokens
    /\ deleted = {}
    /\ assignedAt = EmptyIndex
    /\ unblocked = {}
    /\ snap = NoSnap
    /\ wpc = "off" /\ tickC = 0 /\ cancelled = FALSE /\ missed = 0

\* no client call runs; each pass records the store it starts from
NextSweep ==
    \/ StartCleanup /\ snap' = StoreOf(token_pool, assigned_tokens, keepalive_tokens)
    \/ Sweep

SpecSweep == InitSweep /\ [][NextSweep]_vars

\* ------------------------------------------------------------------- claims
AssignReturned(e) == e.op = "AssignToken" /\ e.err = ErrNone

CleanupReturned(e) == e.op = "CleanupExpiredTokens"

\* C1: no double lease.  Under any interleaving, AssignToken never returns a
\* token whose lease from an earlier AssignToken is still open (not since
\* removed from assigned_tokens by UnblockToken, DeleteToken or a sweep).
C1_NoDoubleLease ==
    [][AssignReturned(ev') => ev'.tok \notin open]_vars

\* C2: whenever no repository call is in progress, no token is a member of
\* both token_pool and assigned_tokens.
C2_MutualExclusion ==
    Idle => token_pool \cap assigned_tokens = {}

\* a token assigned at T and since then not renewed, released or deleted by a
\* client, with T + lo <= at < T + hi
LeaseAged(t, at, lo, hi) ==
    /\ t \in DOMAIN assignedAt
    /\ assignedAt[t] + lo <= at
    /\ at < assignedAt[t] + hi

\* C3: a cleanup pass run at a time now with
\* T + TokenAutoReleaseTime <= now < T + TokenDeletionTime, for a token assigned
\* at T and not renewed, released or deleted since, leaves the token in
\* token_pool and not in assigned_tokens.
C3_ReleaseTiming ==
    CleanupReturned(ev) =>
        \A t \in Tokens :
            LeaseAged(t, ev.at, TokenAutoReleaseTime, TokenDeletionTime)
                => (t \in token_pool /\ t \notin assigned_tokens)

\* C4: a cleanup pass run at a time now >= T + TokenDeletionTime, for a token
\* assigned at T and not renewed, released or deleted since, leaves the token
\* in neither token_pool nor assigned_tokens.
C4_DeletionTiming ==
    CleanupReturned(ev) =>
        \A t \in Tokens :
            (t \in DOMAIN assignedAt /\ assignedAt[t] + TokenDeletionTime <= ev.at)
                => (t \notin token_pool /\ t \notin assigned_tokens)

\* C5: when UnblockToken(t) succeeds (t was leased by AssignToken), t is in
\* token_pool, not in assigned_tokens, and its keepalive score is >= now; a
\* later AssignToken can return t again (C5_Reassigned is reachable).
C5_RoundTrip ==
    (ev.op = "UnblockToken" /\ ev.err = ErrNone) =>
        /\ ev.tok \in token_pool
        /\ ev.tok \notin assigned_tokens
        /\ ev.tok \in DOMAIN keepalive_tokens
        /\ keepalive_tokens[ev.tok] >= now

C5_Reassigned ==
    AssignReturned(ev) /\ ev.tok \in unblocked

\* C6: DeleteToken(t) on a token already deleted (by a successful DeleteToken
\* or purged by a sweep) returns ErrTokenNotFound and changes nothing in the
\* store; DeleteToken returns success exactly when one of its three removals
\* removed something.
C6_DeleteNotIdempotent ==
    [][\A p \in Procs, t \in Tokens : DeleteToken(p, t) =>
          /\ t \in deleted => ev'.err = ErrTokenNotFound
          /\ ev'.err = ErrTokenNotFound => (store' = store /\ lock' = lock)
          /\ ev'.err = ErrNone <=>
                (t \in token_pool \/ t \in assigned_tokens \/ t \in DOMAIN keepalive_tokens)
          /\ ev'.err \in {ErrNone, ErrTokenNotFound}]_vars

C6_DeletedAgain ==
    ev.op = "DeleteToken" /\ ev.err = ErrTokenNotFound /\ ev.tok \in deleted

\* C7: once a token is deleted (DeleteToken returned success, or a sweep purged
\* it), it is never again a member of token_pool or assigned_tokens, whatever
\* calls were in flight at the deletion.
C7_DeletedIsTerminal ==
    \A t \in deleted : t \notin token_pool /\ t \notin assigned_tokens

\* C8: AssignToken on an empty token_pool returns ErrNoAvailableTokens (status
\* 404), sets no lock and leaves token_pool, assigned_tokens and
\* keepalive_tokens unchanged.
C8_AssignEmptyPool ==
    [][\A p \in Procs : (AssignSPop(p) /\ token_pool = {}) =>
          /\ ev'.op = "AssignToken"
          /\ ev'.err = ErrNoAvailableTokens
          /\ AssignTokenStatus(ev'.err) = StatusNotFound
          /\ pc'[p] = "idle"
          /\ lock' = lock
          /\ store' = store]_vars

C8_EmptyPoolRefused ==
    ev.op = "AssignToken" /\ ev.err = ErrNoAvailableTokens /\ token_pool = {}

\* the index z2 is z with the score of t set to s and nothing else changed
OnlyScoreSet(z, z2, t, s) ==
    /\ DOMAIN z2 = DOMAIN z \cup {t}
    /\ z2[t] = s
    /\ \A u \in DOMAIN z \ {t} : z2[u] = z[u]

\* C9: an AssignToken call that returns t popped t from token_pool (t was a
\* member just before), and on return t is not in token_pool, t is in
\* assigned_tokens, its keepalive score is the time of the call plus the lease
\* window, and no other membership or score has changed.
C9_AssignPostcondition ==
    [][\A p \in Procs :
          /\ (AssignSPop(p) /\ token_pool # {}) =>
                /\ tok'[p] \in token_pool
                /\ token_pool' = token_pool \ {tok'[p]}
                /\ assigned_tokens' = assigned_tokens
                /\ keepalive_tokens' = keepalive_tokens
          /\ AssignSetNX(p) => store' = store
          /\ AssignExec(p) =>
                /\ AssignReturned(ev') /\ ev'.tok = tok[p]
                /\ token_pool' = token_pool /\ tok[p] \notin token_pool'
                /\ assigned_tokens' = assigned_tokens \cup {tok[p]}
                /\ OnlyScoreSet(keepalive_tokens, keepalive_tokens', tok[p],
                                now + TokenAutoReleaseTime)
          /\ (pc[p] \in {"assign_setnx", "assign_tx"} /\ pc'[p] = pc[p]) =>
                store' = store]_vars

C9_Assigned ==
    AssignReturned(ev) /\ Cardinality(DOMAIN keepalive_tokens) = 2 /\ now > 0

\* C10: SaveToken with a fresh id x adds x to token_pool (one member more),
\* sets the keepalive score of x to the current time, does not add x to
\* assigned_tokens and changes no other membership or score.
C10_GeneratePostcondition ==
    [][\A p \in Procs :
          /\ \A x \in Tokens : SaveTokenSAdd(p, x) =>
                /\ x \notin token_pool
                /\ token_pool' = token_pool \cup {x}
                /\ Cardinality(token_pool') = Cardinality(token_pool) + 1
                /\ assigned_tokens' = assigned_tokens
                /\ keepalive_tokens' = keepalive_tokens
          /\ SaveTokenZAdd(p) =>
                /\ ev'.op = "SaveToken" /\ ev'.err = ErrNone /\ ev'.tok = tok[p]
                /\ token_pool' = token_pool /\ tok[p] \in token_pool'
                /\ assigned_tokens' = assigned_tokens /\ tok[p] \notin assigned_tokens'
                /\ OnlyScoreSet(keepalive_tokens, keepalive_tokens', tok[p], now)
          /\ (pc[p] = "save_zadd" /\ pc'[p] = pc[p]) => store' = store]_vars

C10_Generated ==
    ev.op = "SaveToken" /\ ev.err = ErrNone /\ now > 0
        /\ Cardinality(token_pool \cup assigned_tokens) = 2


\* C11: KeepAlive(t) on a token in neither token_pool nor assigned_tokens
\* returns ErrTokenNotFound and writes nothing; otherwise it sets the keepalive
\* score of t to now + TokenAutoReleaseTime whatever the score was, and changes
\* no membership and no other score.
C11_RenewPostcondition ==
    [][\A p \in Procs :
          /\ \A t \in Tokens : KeepAliveInPool(p, t) => (store' = store /\ lock' = lock)
          /\ KeepAliveInAssigned(p) =>
                /\ store' = store /\ lock' = lock
                /\ (ev'.op = "KeepAlive" /\ ev'.err = ErrTokenNotFound) <=>
                      (tok[p] \notin token_pool /\ tok[p] \notin assigned_tokens)
                /\ pc'[p] = "ka_zadd" <=>
                      (tok[p] \in token_pool \/ tok[p] \in assigned_tokens)
          /\ KeepAliveZAdd(p) =>
                /\ ev'.op = "KeepAlive" /\ ev'.err = ErrNone /\ ev'.tok = tok[p]
                /\ token_pool' = token_pool /\ assigned_tokens' = assigned_tokens
                /\ lock' = lock
                /\ OnlyScoreSet(keepalive_tokens, keepalive_tokens', tok[p],
                                now + TokenAutoReleaseTime)
          /\ (pc[p] \in {"ka_assigned", "ka_zadd"} /\ pc'[p] = pc[p]) =>
                store' = store]_vars

\* a held lease renewed at least two ticks after the start of the run
C11_Renewed ==
    /\ ev.op = "KeepAlive" /\ ev.err = ErrNone
    /\ ev.tok \in assigned_tokens
    /\ now >= 2 * TickStep
    /\ keepalive_tokens[ev.tok] = now + TokenAutoReleaseTime


\* C12: UnblockToken(t) whose membership check finds t outside assigned_tokens
\* (never assigned, still in the pool, already unblocked, or deleted) returns
\* ErrTokenNotAssigned and leaves token_pool, assigned_tokens and
\* keepalive_tokens as they were.
C12_UnblockNotAssigned ==
    [][\A p \in Procs : \A t \in Tokens :
          (UnblockIsMember(p, t) /\ t \notin assigned_tokens) =>
              /\ ev'.op = "UnblockToken" /\ ev'.tok = t
              /\ ev'.err = ErrTokenNotAssigned
              /\ pc'[p] = "idle"
              /\ store' = store
              /\ lock' = lock]_vars

\* a second UnblockToken of a token already back in the pool is refused
C12_RefusedAfterUnblock ==
    /\ ev.op = "UnblockToken" /\ ev.err = ErrTokenNotAssigned
    /\ ev.tok \in unblocked
    /\ ev.tok \in token_pool


C14_ListAssigned ==
    [][/\ ListSMembers =>
            /\ tokens' = assigned_tokens
            /\ lnow' = now
            /\ expiryMap' = EmptyIndex
            /\ store' = store
       /\ \A t \in Tokens : ListZScore(t) =>
            /\ t \in tokens
            /\ OnlyScoreSet(expiryMap, expiryMap', t,
                    IF t \notin DOMAIN keepalive_tokens THEN -1
                    ELSE IF keepalive_tokens[t] - lnow >= -1
                           THEN keepalive_tokens[t] - lnow
                           ELSE -1)
            /\ store' = store
       /\ ListReturn =>
            /\ ev'.op = "GetAssignedTokensWithExpiry" /\ ev'.err = ErrNone
            /\ ev'.expiry = expiryMap
            /\ ev'.at = lnow
            /\ DOMAIN ev'.expiry = tokens
            /\ \A t \in DOMAIN ev'.expiry : ev'.expiry[t] >= -1
            /\ store' = store]_vars

\* the call returned -1 for a token whose score lies more than a second
\* before the clock the call read
C14_Floored ==
    /\ ev.op = "GetAssignedTokensWithExpiry"
    /\ \E t \in DOMAIN ev.expiry :
          /\ t \in assigned_tokens
          /\ t \in DOMAIN keepalive_tokens
          /\ keepalive_tokens[t] - ev.at < -1
          /\ ev.expiry[t] = -1


\* C15: a keep-alive, delete or unblock request that names a token the
\* repository does not find (ErrTokenNotFound, or ErrTokenNotAssigned for
\* unblock) is answered with status 404, not 500.
C15_UnknownTokenIs404 ==
    /\ (ev.op = "KeepAlive" /\ ev.err = ErrTokenNotFound) =>
          KeepAliveStatus(ev.err) = StatusNotFound
    /\ (ev.op = "DeleteToken" /\ ev.err = ErrTokenNotFound) =>
          DeleteTokenStatus(ev.err) = StatusNotFound
    /\ (ev.op = "UnblockToken" /\ ev.err = ErrTokenNotAssigned) =>
          UnblockTokenStatus(ev.err) = StatusNotFound


\* C16: without store faults AssignToken never returns ErrTokenAlreadyInUse:
\* the lock of the token it popped from token_pool is always free.
C16_NeverAlreadyInUse ==
    ~(ev.op = "AssignToken" /\ ev.err = ErrTokenAlreadyInUse)


\* C17: when a successful AssignToken has committed the transaction that puts
\* t into assigned_tokens, the key lock:t is no longer set.
C17_LockReleasedOnSuccess ==
    AssignReturned(ev) => ev.tok \notin DOMAIN lock

\* C18: a token becomes a member of assigned_tokens only by the transaction of
\* an AssignToken call, and at that moment the key lock:t that the call set is
\* still set.
C18_LockGuardedHandOff ==
    [][\A t \in Tokens :
          (t \notin assigned_tokens /\ t \in assigned_tokens') =>
              \E p \in Procs :
                  /\ AssignExec(p)
                  /\ tok[p] = t
                  /\ t \in DOMAIN lock
                  /\ lock[t] > now]_vars

\* C19: in every state, the states between the round trips of calls in
\* progress included, every member of token_pool or assigned_tokens has a
\* keepalive score, unless a sweep has found the score missing and queued the
\* token for deletion.
C19_KeepaliveCoverage ==
    \A t \in token_pool \cup assigned_tokens :
        t \in DOMAIN keepalive_tokens \/ t \in adel \cup pdel

\* C20: the keepalive score of a token never decreases while the token has
\* one, whatever the interleaving of SaveToken, AssignToken, KeepAlive and
\* UnblockToken.
C20_DeadlineMonotone ==
    [][\A t \in DOMAIN keepalive_tokens \cap DOMAIN keepalive_tokens' :
          keepalive_tokens'[t] >= keepalive_tokens[t]]_vars


\* C21: a cleanup pass only removes or downgrades: no step of either sweep adds
\* a token to assigned_tokens, writes or changes a keepalive score (entries
\* are only removed), adds to token_pool a token that is not in
\* assigned_tokens when the transaction commits, or touches a lock.
C21_CleanupOnlyDowngrades ==
    [][(StartCleanup \/ Sweep) =>
          /\ assigned_tokens' \subseteq assigned_tokens
          /\ DOMAIN keepalive_tokens' \subseteq DOMAIN keepalive_tokens
          /\ \A t \in DOMAIN keepalive_tokens' : keepalive_tokens'[t] = keepalive_tokens[t]
          /\ (token_pool' \ token_pool) \subseteq assigned_tokens
          /\ lock' = lock]_vars


\* the case of the decision rule a token with the scores z falls under at a
\* pass that read the clock `at`
ScoreMissing(z, t) == t \notin DOMAIN z

PastDeletion(z, t, at) == t \in DOMAIN z /\ z[t] <= at - TokenDeletionTime

PastRelease(z, t, at) ==
    /\ t \in DOMAIN z
    /\ z[t] > at - TokenDeletionTime
    /\ z[t] <= at - TokenAutoReleaseTime

\* C22: in a cleanup pass with no client call running, the assigned sweep
\* handles each member t of assigned_tokens by exactly one case: no score, or
\* score <= now - TokenDeletionTime: removed from assigned_tokens and from
\* keepalive_tokens, counted deleted; otherwise score <= now -
\* TokenAutoReleaseTime: moved to token_pool with its score unchanged, counted
\* released; otherwise untouched.
C22_AssignedSweepRule ==
    [][/\ AExec =>
            /\ adel \cup arel \subseteq snap.assigned
            /\ adel \cap arel = {}
            /\ \A t \in snap.assigned :
                  IF ScoreMissing(snap.keepalive, t) \/ PastDeletion(snap.keepalive, t, rnow)
                    THEN /\ t \in adel
                         /\ t \notin assigned_tokens'
                         /\ t \notin DOMAIN keepalive_tokens'
                  ELSE IF PastRelease(snap.keepalive, t, rnow)
                    THEN /\ t \in arel
                         /\ t \notin assigned_tokens'
                         /\ t \in token_pool'
                         /\ t \in DOMAIN keepalive_tokens'
                         /\ keepalive_tokens'[t] = snap.keepalive[t]
                  ELSE /\ t \notin adel \cup arel
                       /\ t \in assigned_tokens'
                       /\ (t \in token_pool' <=> t \in token_pool)
                       /\ keepalive_tokens'[t] = snap.keepalive[t]
       /\ CleanupJoin =>
            ev'.released = Cardinality({t \in snap.assigned :
                                           PastRelease(snap.keepalive, t, rnow)})]_vars

\* the assigned sweep has committed a pass that deleted a token without a
\* score and released another
C22_DeletedAndReleased ==
    /\ apc = "done"
    /\ \E t \in adel : ScoreMissing(snap.keepalive, t) /\ t \notin assigned_tokens
    /\ \E t \in arel : t \in token_pool /\ t \notin assigned_tokens
                       /\ keepalive_tokens[t] = ReleaseBefore(rnow)

\* C23: in a cleanup pass with no client call running, the pool sweep removes
\* from token_pool and from keepalive_tokens each member of token_pool that
\* has no score or a score <= now - TokenDeletionTime, counted deleted; every
\* other member of token_pool keeps its membership and its score.
C23_PoolSweepRule ==
    [][/\ PExec =>
            /\ pdel = {t \in snap.pool : ScoreMissing(snap.keepalive, t)
                                          \/ PastDeletion(snap.keepalive, t, rnow)}
            /\ \A t \in snap.pool :
                  IF t \in pdel
                    THEN /\ t \notin token_pool'
                         /\ t \notin DOMAIN keepalive_tokens'
                    ELSE /\ t \in token_pool'
                         /\ t \in DOMAIN keepalive_tokens'
                         /\ keepalive_tokens'[t] = snap.keepalive[t]
       /\ CleanupJoin =>
            ev'.deleted = Cardinality(adel) + Cardinality(pdel)]_vars

\* the pool sweep has committed a pass that deleted a token without a score
\* and one with a score at the deletion threshold
C23_DeletedFromPool ==
    /\ ppc = "done"
    /\ \E t \in pdel \ pdelz : t \in snap.pool /\ t \notin token_pool
    /\ \E t \in pdelz : snap.keepalive[t] = DeleteBefore(rnow) /\ t \notin token_pool
                        /\ t \notin DOMAIN keepalive_tokens

\* C24: from the same store and the same pass time, the assigned sweep before
\* the pool sweep, after it, or interleaved with it round trip by round trip
\* leaves the same token_pool, assigned_tokens and keepalive_tokens and
\* returns the same released and deleted counts; while a pass is in progress
\* one of its sweeps can always take a step.
C24_SweepOrderIndependent ==
    [][/\ CleanupJoin =>
            /\ AssignedThenPool(snap, rnow) = PoolThenAssigned(snap, rnow)
            /\ StoreOf(token_pool, assigned_tokens, keepalive_tokens)
                  = AssignedThenPool(snap, rnow).store
            /\ ev'.released = AssignedThenPool(snap, rnow).released
            /\ ev'.deleted = AssignedThenPool(snap, rnow).deleted
       /\ (apc' # "idle" \/ ppc' # "idle") => (ENABLED Sweep)']_vars

\* a pass returned after both sweeps changed the store: a release by the
\* assigned sweep and a deletion by the pool sweep
C24_BothSweepsActed ==
    /\ CleanupReturned(ev)
    /\ ev.released > 0
    /\ ev.deleted > 0
    /\ snap.pool \ token_pool # {}
    /\ token_pool \ snap.pool # {}


\* C25: when the transaction of one sweep fails and the other's succeeds, the
\* result CleanupExpiredTokens returns still reports the released and deleted
\* counts of the sweep that succeeded, and not those of the one that failed.
C25_FailureIsolation ==
    [][/\ (CleanupJoin /\ apc = "failed" /\ ppc = "done") =>
            /\ ev'.err = ErrCleanupAssigned
            /\ ev'.released = 0
            /\ ev'.deleted = Cardinality(pdel)
       /\ (CleanupJoin /\ apc = "done" /\ ppc = "failed") =>
            /\ ev'.err = ErrCleanupPool
            /\ ev'.released = Cardinality(arel)
            /\ ev'.deleted = Cardinality(adel)]_vars

C29_PassNotPreempted ==
    [][(cancelled /\ wpc = "cleanup" /\ wpc' # "cleanup") =>
          /\ CleanupJoin
          /\ apc = "done" /\ ppc = "done"
          /\ ev'.err = ErrNone
          /\ wpc' = "select"]_vars

\* a tick the worker takes from ticker.C is answered by one call of
\* cleanupFunc, whatever the call before it returned
OneCallPerReceipt ==
    /\ WorkerReceive => (tickC = 1 /\ tickC' = 0 /\ wpc' = "call")
    /\ (wpc = "call" /\ wpc' # "call" /\ wpc' # "exited") =>
          (StartCleanup /\ wpc' = "cleanup")
    /\ (wpc # "cleanup" /\ wpc' = "cleanup") => wpc = "call"

\* an error of the pass does not stop the worker; only ctx.Done() does
ErrorTolerated ==
    /\ (CleanupJoin /\ wpc = "cleanup") => wpc' = "select"
    /\ (wpc # "stopped" /\ wpc' = "stopped") => (cancelled /\ wpc = "select")

\* C30 as stated: a pass that returns an error does not stop the worker, and
\* while ctx is not cancelled every tick of the timer calls cleanupFunc
\* exactly once: none is lost.
C30_EveryTickCleans ==
    [][/\ ErrorTolerated
       /\ OneCallPerReceipt
       /\ ~cancelled => missed' = missed]_vars

\* C30 amended: a pass that returns an error does not stop the worker, and
\* while ctx is not cancelled every tick the worker receives from ticker.C
\* calls cleanupFunc exactly once; a tick that fires while one is already
\* waiting in ticker.C is dropped.
C30_EveryReceivedTickCleans ==
    [][/\ ErrorTolerated
       /\ OneCallPerReceipt
       /\ (~cancelled /\ missed' # missed) =>
              (tickC = 1 /\ tickC' = 1 /\ missed' = missed + 1)]_vars

\* a pass returned an error to the worker, ctx is not cancelled, and the
\* worker is back in its select with the next tick waiting
C30_BackInSelectAfterError ==
    /\ CleanupReturned(ev)
    /\ ev.err # ErrNone
    /\ ~cancelled
    /\ wpc = "select"
    /\ tickC = 1


\* t is in neither set, still has a keepalive entry, and no call holds it
Stranded(t) ==
    /\ t \notin token_pool \cup assigned_tokens
    /\ t \in DOMAIN keepalive_tokens
    /\ \A p \in Procs : pc[p] = "idle"

\* both thresholds can still pass before the clock of SpecLive stops
TimeToReclaim == now + TokenAutoReleaseTime + TokenDeletionTime <= MaxTicksLive * TickStep

\* C27: a token that an AssignToken call popped from token_pool and failed to
\* publish (SetNX or the transaction failed) is eventually back in token_pool
\* or without a keepalive entry, provided the worker keeps running passes as
\* time advances.
C27_StrandedReclaimed ==
    \A t \in RaceTokens :
        (ev.op = "AssignToken" /\ ev.err \in {ErrExec, ErrTokenAlreadyInUse}
            /\ Stranded(t) /\ TimeToReclaim)
          ~> (t \in token_pool \/ t \notin DOMAIN keepalive_tokens)


\* t was assigned at time at, and since then no client call has renewed,
\* released, deleted or re-assigned it, and none is in progress on it
LeftAlone(t, at) ==
    /\ t \in DOMAIN assignedAt /\ assignedAt[t] = at
    /\ \A p \in Procs : tok[p] # t

\* the assignment times from which both thresholds pass before the clock of
\* SpecLive stops
AssignTimes ==
    {at \in {k * TickStep : k \in 0..MaxTicksLive} :
        at + TokenAutoReleaseTime + TokenDeletionTime <= MaxTicksLive * TickStep}

AbandonedAssigned(t, at) ==
    LeftAlone(t, at) /\ t \in assigned_tokens

ReturnedUnrenewed(t, at) ==
    /\ LeftAlone(t, at)
    /\ t \in token_pool /\ t \notin assigned_tokens
    /\ t \in DOMAIN keepalive_tokens /\ keepalive_tokens[t] = at + TokenAutoReleaseTime

Purged(t) ==
    /\ t \notin token_pool \cup assigned_tokens
    /\ t \notin DOMAIN keepalive_tokens

\* C28: with the worker running a pass as time advances, a token assigned at
\* some time and then left alone by every client leaves assigned_tokens only
\* into token_pool with the score the assignment gave it, does get there, and
\* from there is eventually in neither set and without a keepalive entry.
C28_AbandonedPurged ==
    /\ [][\A t \in RaceTokens : \A at \in AssignTimes :
            (AbandonedAssigned(t, at) /\ LeftAlone(t, at)' /\ t \notin assigned_tokens')
                => ReturnedUnrenewed(t, at)']_vars
    /\ \A t \in RaceTokens : \A at \in AssignTimes :
          AbandonedAssigned(t, at) ~> (ReturnedUnrenewed(t, at) \/ ~LeftAlone(t, at))
    /\ \A t \in RaceTokens : \A at \in AssignTimes :
          ReturnedUnrenewed(t, at) ~> (Purged(t) \/ ~LeftAlone(t, at))

\* C28 witness: a pass has just returned having deleted a token that no client
\* touched since its assignment, and the token is gone from the pool and the
\* index
C28_PurgedByPass ==
    /\ CleanupReturned(ev) /\ ev.deleted >= 1 /\ ev.released = 0
    /\ \E t \in RaceTokens : \E at \in AssignTimes :
          LeftAlone(t, at) /\ Purged(t) /\ ev.at >= at + TokenAutoReleaseTime + TokenDeletionTime


\* the worker's loop has ended: it returned, or the process exited
Terminated == wpc \in {"stopped", "exited"}

\* C31: once ctx is cancelled and the worker is in its select (no pass in
\* flight), the worker's loop eventually ends; and once it has ended it stays
\* ended and no step of a cleanup pass is taken.
C31_WorkerTerminates ==
    /\ (cancelled /\ wpc = "select") ~> Terminated
    /\ [][Terminated => (Terminated' /\ UNCHANGED <<rnow, sweepA, sweepP>>)]_vars

\* C31 witness: the worker returned through the ctx.Done() case of a select
\* in which a tick was ready as well
C31_StoppedAfterPass ==
    wpc = "stopped" /\ cancelled /\ tickC = 1


\* C32: the transaction of the assigned sweep leaves in assigned_tokens every
\* token whose keepalive score, at the moment the transaction commits, is
\* greater than now - TokenAutoReleaseTime.
C32_FreshLeaseKept ==
    [][AExec =>
          \A t \in assigned_tokens :
              (t \in DOMAIN keepalive_tokens
                  /\ keepalive_tokens[t] > now - TokenAutoReleaseTime)
                => t \in assigned_tokens']_vars


\* C33: while a SaveToken(x) call is in progress, and less than
\* TokenDeletionTime after it began, no sweep transaction takes x out of both
\* token_pool and assigned_tokens; and the call's ZAdd does not lower the score
\* of x when x has been assigned meanwhile.
C33_GenerateSafe ==
    [][\A p \in Procs :
          pc[p] = "save_zadd" =>
              /\ (now < TokenDeletionTime
                    /\ tok[p] \in token_pool \cup assigned_tokens
                    /\ (AExec \/ PExec))
                  => tok[p] \in token_pool' \cup assigned_tokens'
              /\ (SaveTokenZAdd(p)
                    /\ tok[p] \in assigned_tokens
                    /\ tok[p] \in DOMAIN keepalive_tokens)
                  => keepalive_tokens'[tok[p]] >= keepalive_tokens[tok[p]]]_vars


\* C34: in every state where no call and no cleanup pass is in progress, every
\* token with a keepalive score is a member of token_pool or assigned_tokens.
C34_NoOrphanScores ==
    Idle => \A t \in DOMAIN keepalive_tokens : t \in token_pool \cup assigned_tokens

====
